---- MODULE Spec2Model ----
(***************************************************************************)
(* Model of BooksScraperDB (src/script_books.py): the scraping of the      *)
(* catalogue and quotes sites, the enrichment of the authors, the insert   *)
(* phases against the PostgreSQL schema of create_tables, and              *)
(* run_full_pipeline.                                                      *)
(*                                                                         *)
(* A text is a sequence of tokens: a word ("Books", "Travel"), a blank     *)
(* (" ") or a digit ("7").  The empty sequence is the empty string.        *)
(***************************************************************************)
EXTENDS Naturals, Integers, Sequences, FiniteSets, TLC

VARIABLES
    mode,        \* "pipeline": run_full_pipeline drives the methods; "direct": a caller does
    pc,          \* the method that runs next (pipeline) or is running; "idle" between direct calls
    calls,       \* the direct caller: the methods it calls and the number of calls it still makes
    ran,         \* the methods that this execution of run_full_pipeline has run
    conn,        \* self.conn: "none" (None), "open", "closed"
    categories,  \* self.categories: sequence of category names
    books,       \* self.books
    publishers,  \* self.publishers
    authors,     \* self.authors
    quotes,      \* self.quotes
    tags,        \* self.tags
    page,        \* local variable page of the running extraction loop (0: no loop runs)
    authors_dict,\* local variable authors_dict of extract_authors_from_quotes (insertion order)
    author_name, \* local variable author_name of extract_authors_from_quotes
    last,        \* what the last step received and did (response, outcome)
    errlog,      \* the logger.error lines written so far (set of message kinds)
    db,          \* committed rows of the eight tables
    seqs,        \* the SERIAL sequence of each table (last value handed out)
    tx_failed,   \* the connection's transaction is in the aborted state
    faults,      \* number of statements or commits the database will still refuse
    files        \* the export files: whether written, and their rows

vars == <<mode, pc, calls, ran, conn, categories, books, publishers, authors, quotes,
          tags, page, authors_dict, author_name, last, errlog, db, seqs, tx_failed, faults, files>>

(***************************************************************************)
(* Bounds                                                                  *)
(***************************************************************************)
MaxTextLen == 3
MaxLinks == 2
MaxCatCalls == 2
MaxItems == 2
MaxBooks == 3
MaxBlocks == 2
MaxQuotes == 2
MaxQuotePages == 2
MaxInsertCalls == 2
MaxFaults == 1

(***************************************************************************)
(* Texts                                                                   *)
(***************************************************************************)
Tokens == {"Books", " ", "7"}

IsSpace(c) == c = " "

IsDigit(c) == c = "7"

SeqsUpTo(S, n) == UNION {[1..k -> S] : k \in 0..n}

Range(s) == {s[i] : i \in 1..Len(s)}

RECURSIVE lstrip(_)
lstrip(s) ==
    IF s = <<>> THEN s
    ELSE IF IsSpace(Head(s)) THEN lstrip(Tail(s)) ELSE s

RECURSIVE rstrip(_)
rstrip(s) ==
    IF s = <<>> THEN s
    ELSE IF IsSpace(s[Len(s)]) THEN rstrip(SubSeq(s, 1, Len(s) - 1)) ELSE s

\* str.strip()
strip(s) == rstrip(lstrip(s))

RECURSIVE rdigits(_)
\* s without its trailing run of digits
rdigits(s) ==
    IF s = <<>> THEN s
    ELSE IF IsDigit(s[Len(s)]) THEN rdigits(SubSeq(s, 1, Len(s) - 1)) ELSE s

\* re.sub(r'\s+\d+$', '', s): a final run of digits preceded by at least one
\* blank is removed together with the blanks before it
sub_count(s) ==
    LET d == rdigits(s)
        w == rstrip(d)
    IN  IF Len(d) < Len(s) /\ Len(w) < Len(d) THEN w ELSE s

\* clean_name of extract_categories
clean_name(category_name) == strip(sub_count(category_name))

(***************************************************************************)
(* Control: run_full_pipeline calls the methods in the order of its body;  *)
(* a direct caller calls one method at a time                              *)
(***************************************************************************)
\* PipelineOrder with each relation insert before the insert of its books or
\* quotes
PipelineOrder_relations_first ==
    <<"connect_db", "create_tables",
      "extract_categories", "extract_books", "generate_publishers",
      "extract_authors_from_quotes", "enrich_authors_with_openlibrary",
      "insert_categories", "insert_publishers", "insert_authors",
      "insert_book_authors_relations", "insert_books", "insert_tags",
      "insert_quote_tags_relations", "insert_quotes",
      "display_summary", "verify_relations", "export_to_csv_json",
      "close_connection", "done">>

\* the statements of the try block of run_full_pipeline, its finally block,
\* and its end
PipelineOrder ==
    <<"connect_db", "create_tables",
      "extract_categories", "extract_books", "generate_publishers",
      "extract_authors_from_quotes", "enrich_authors_with_openlibrary",
      "insert_categories", "insert_publishers", "insert_authors", "insert_books",
      "insert_book_authors_relations", "insert_quotes", "insert_tags",
      "insert_quote_tags_relations",
      "display_summary", "verify_relations", "export_to_csv_json",
      "close_connection", "done">>

PhaseIndex(p) == CHOOSE i \in 1..Len(PipelineOrder) : PipelineOrder[i] = p

\* the statement of run_full_pipeline that follows the call of p
NextPhase(p) == PipelineOrder[PhaseIndex(p) + 1]

Methods == Range(PipelineOrder) \ {"done"}

\* a caller that makes n calls of methods of ms
CallPlan(ms, n) == [methods |-> ms, total |-> n]

\* the call of method p starts
Enter(p) ==
    IF mode = "pipeline" THEN pc = p
    ELSE pc = "idle" /\ p \in calls.methods /\ calls.total > 0

\* method p returns normally
Return(p) ==
    /\ pc' = IF mode = "pipeline" THEN NextPhase(p) ELSE "idle"
    /\ calls' = IF mode = "pipeline" THEN calls ELSE [calls EXCEPT !.total = @ - 1]
    /\ ran' = IF mode = "pipeline" THEN ran \cup {p} ELSE ran
    /\ UNCHANGED mode

\* method p goes on running
Stay(p) ==
    /\ pc' = p
    /\ UNCHANGED <<mode, calls, ran>>

None == "None"

Unbound == "Unbound"

NoId == 0

(***************************************************************************)
(* extract_categories                                                      *)
(***************************************************************************)
RootLabel == <<"Books">>

\* the test that keeps a link of the navigation list
keep_category_link(category_name) ==
    category_name /= <<>> /\ category_name /= RootLabel

RECURSIVE collect_categories(_, _)
\* the for loop over category_links, cats being self.categories
collect_categories(links, cats) ==
    IF links = <<>> THEN cats
    ELSE LET category_name == strip(Head(links))
             clean == clean_name(category_name)
         IN  IF keep_category_link(category_name) /\ clean \notin Range(cats)
             THEN collect_categories(Tail(links), Append(cats, clean))
             ELSE collect_categories(Tail(links), cats)

\* resp: the answer to GET books_base_url
\*   [status |-> "error"]                 transport error or HTTP error status
\*   [status |-> "ok", nav |-> FALSE]     no ul.nav-list on the page
\*   [status |-> "ok", nav |-> TRUE, links |-> <<text, ...>>]
extract_categories(resp) ==
    /\ Enter("extract_categories")
    /\ Return("extract_categories")
    /\ IF resp.status = "error"
       THEN /\ errlog' = errlog \cup {"extract_categories"}
            /\ UNCHANGED categories
       ELSE /\ categories' = IF resp.nav THEN collect_categories(resp.links, categories)
                             ELSE categories
            /\ UNCHANGED errlog
    /\ last' = [op |-> "extract_categories", status |-> resp.status]
    /\ UNCHANGED <<conn, books, publishers, authors, quotes, tags, page,
                   authors_dict, author_name, db, seqs, tx_failed, faults, files>>

LinkTexts == SeqsUpTo(Tokens, MaxTextLen)

NavResponses ==
    {[status |-> "error"], [status |-> "ok", nav |-> FALSE]}
    \cup {[status |-> "ok", nav |-> TRUE, links |-> l] : l \in SeqsUpTo(LinkTexts, MaxLinks)}

NoLast == [op |-> "none"]

EmptyDb ==
    [categories |-> {}, publishers |-> {}, authors |-> {}, books |-> {},
     book_authors |-> {}, tags |-> {}, quotes |-> {}, quote_tags |-> {}]

TableNames == DOMAIN EmptyDb

ExportFiles == <<"books_export.csv", "quotes_export.json", "author_books_relations.csv">>

\* no export file exists
NoFiles == [f \in {ExportFiles[i] : i \in DOMAIN ExportFiles} |-> [written |-> FALSE, rows |-> <<>>]]

\* BooksScraperDB.__init__
InitObject ==
    /\ conn = "none"
    /\ categories = <<>>
    /\ books = <<>>
    /\ publishers = <<>>
    /\ authors = <<>>
    /\ quotes = <<>>
    /\ tags = {}
    /\ page = 0
    /\ authors_dict = <<>>
    /\ author_name = Unbound
    /\ last = NoLast
    /\ errlog = {}
    /\ db = EmptyDb
    /\ seqs = [t \in TableNames |-> 0]
    /\ tx_failed = FALSE
    /\ files = NoFiles

(***************************************************************************)
(* extract_books                                                           *)
(*                                                                         *)
(* A listing response is [status |-> "404"], [status |-> "error"] (the     *)
(* transport fails, raise_for_status raises, or the page does not parse)   *)
(* or [status |-> "ok", items |-> <<container, ...>>].  A container is     *)
(*   [kind |-> "ok", title, category]   parsed, detail page read           *)
(*   [kind |-> "container_error"]       an element of the container fails  *)
(*   [kind |-> "detail_error", title]   the detail page fails              *)
(* with, for the last two kinds,                                           *)
(*   classes  the class list of the paragraph found by 'star-rating' (<<>> *)
(*            when there is none); a class is a sequence of pieces of text *)
(*   rows     the rows <th, td> of the product table (<<>> without table): *)
(*            [key: the lowered header, year: the match of 20\d{2} in td]  *)
(*   draw     what random.randint(2000, 2023) returns for this book        *)
(***************************************************************************)
PageCap == 5

\* an integer that is None
NoInt == 0

\* rating_map, in the order of the dict
RatingWords == <<"One", "Two", "Three", "Four", "Five">>

\* word in rating_class: the word is one of the pieces of the class
word_in(word, rating_class) == \E i \in DOMAIN rating_class : rating_class[i] = word

\* extract_rating_from_class returning the number of the last word found
extract_rating_from_class_last(rating_class) ==
    LET found == {k \in DOMAIN RatingWords : word_in(RatingWords[k], rating_class)}
    IN  IF found = {} THEN NoInt
        ELSE CHOOSE k \in found : \A j \in found : j <= k

\* the number of the first word of rating_map that the class contains
extract_rating_from_class(rating_class) ==
    LET found == {k \in DOMAIN RatingWords : word_in(RatingWords[k], rating_class)}
    IN  IF found = {} THEN NoInt
        ELSE CHOOSE k \in found : \A j \in found : k <= j

\* lines 273-281: the first class that is one of the five words is converted
container_rating(classes) ==
    LET exact == {i \in DOMAIN classes : \E k \in DOMAIN RatingWords :
                                             classes[i] = <<RatingWords[k]>>}
    IN  IF exact = {} THEN NoInt
        ELSE extract_rating_from_class(classes[CHOOSE i \in exact : \A j \in exact : i <= j])

\* 'upc' in key, 'available' in key, for the headers of the model
key_has(word, key) ==
    CASE word = "upc" -> key = "upc"
      [] word = "available" -> key = "number available"
      [] OTHER -> FALSE

RECURSIVE table_year(_, _, _)
\* the loop over the rows of the product table, year being
\* details['publication_year']
table_year(rows, draw, year) ==
    IF rows = <<>> THEN year
    ELSE LET row == Head(rows)
         IN  table_year(Tail(rows), draw,
                 IF key_has("upc", row.key) THEN year
                 ELSE IF key_has("available", row.key)
                      THEN (IF row.year /= NoInt THEN row.year ELSE draw)
                      ELSE year)

\* get_book_page_details: the fields read from the detail page, or the
\* defaults when the fetch or the parse raises
get_book_page_details(item) ==
    IF item.kind = "detail_error"
    THEN [category |-> <<>>, publication_year |-> item.draw]
    ELSE [category |-> item.category,
          publication_year |-> table_year(item.rows, item.draw, NoInt)]

\* extract_book_details: <<record>>, or <<>> for the None of the handler
extract_book_details(item) ==
    IF item.kind = "container_error" THEN <<>>
    ELSE <<[title |-> item.title,
            rating |-> container_rating(item.classes),
            category |-> get_book_page_details(item).category,
            publication_year |-> get_book_page_details(item).publication_year,
            db_id |-> NoId]>>

\* the logger.error lines of one container
book_item_errors(item) ==
    IF item.kind = "container_error" THEN {"extract_book_details"}
    ELSE IF item.kind = "detail_error" THEN {"get_book_page_details"}
    ELSE {}

RECURSIVE collect_books_stops(_, _)
\* collect_books leaving the loop at the first container that is not appended
collect_books_stops(items, bks) ==
    IF items = <<>> \/ extract_book_details(Head(items)) = <<>> THEN bks
    ELSE collect_books_stops(Tail(items), bks \o extract_book_details(Head(items)))

RECURSIVE collect_books(_, _)
\* the for loop over book_containers, bks being self.books
collect_books(items, bks) ==
    IF items = <<>> THEN bks
    ELSE collect_books(Tail(items), bks \o extract_book_details(Head(items)))

\* books_page_breaks without the test of an empty container list
books_page_breaks_no_empty(resp) ==
    \/ resp.status = "404"
    \/ resp.status = "error"

\* the listing response ends the while loop: 404, no container, or an exception
books_page_breaks(resp) ==
    \/ resp.status = "404"
    \/ resp.status = "error"
    \/ resp.status = "ok" /\ resp.items = <<>>

book_resp_kind(resp) ==
    IF resp.status = "ok" /\ resp.items = <<>> THEN "empty" ELSE resp.status

\* lines 213-215: the method starts, page = 1
extract_books_begin ==
    /\ Enter("extract_books")
    /\ page = 0
    /\ Stay("extract_books")
    /\ page' = 1
    /\ last' = [op |-> "extract_books_begin"]
    /\ UNCHANGED <<conn, categories, books, publishers, authors, quotes, tags,
                   authors_dict, author_name, errlog, db, seqs, tx_failed, faults, files>>

\* lines 216-252: one iteration of the while loop, and the return after a break
extract_books_page(resp) ==
    /\ pc = "extract_books"
    /\ page > 0
    /\ last' = [op |-> "extract_books_page", page |-> page, status |-> book_resp_kind(resp),
                kinds |-> IF resp.status = "ok" THEN [i \in DOMAIN resp.items |-> resp.items[i].kind]
                          ELSE <<>>]
    /\ IF books_page_breaks(resp)
       THEN /\ errlog' = IF resp.status = "error" THEN errlog \cup {"extract_books"} ELSE errlog
            /\ UNCHANGED books
            /\ page' = 0
            /\ Return("extract_books")
       ELSE /\ books' = collect_books(resp.items, books)
            /\ errlog' = errlog \cup UNION {book_item_errors(resp.items[i]) : i \in DOMAIN resp.items}
            /\ IF page + 1 > PageCap
               THEN page' = 0 /\ Return("extract_books")
               ELSE page' = page + 1 /\ Stay("extract_books")
    /\ UNCHANGED <<conn, categories, publishers, authors, quotes, tags,
                   authors_dict, author_name, db, seqs, tx_failed, faults, files>>

\* the paragraph and the product table of a book of the site
StockClasses == <<<<"star-rating">>, <<"Three">>>>

StockRows == <<[key |-> "upc", year |-> NoInt], [key |-> "availability", year |-> NoInt]>>

BookItems(titles, cats) ==
    {[kind |-> "container_error"]}
    \cup {[kind |-> "detail_error", title |-> t, classes |-> StockClasses, draw |-> 2000] :
              t \in titles}
    \cup {[kind |-> "ok", title |-> t, category |-> c, classes |-> StockClasses,
           rows |-> StockRows, draw |-> 2000] : t \in titles, c \in cats}

BookResponses(titles, cats, n) ==
    {[status |-> "404"], [status |-> "error"]}
    \cup {[status |-> "ok", items |-> l] : l \in SeqsUpTo(BookItems(titles, cats), n)}

(***************************************************************************)
(* extract_authors_from_quotes                                             *)
(*                                                                         *)
(* A listing response is [status |-> "404"], [status |-> "error"] or       *)
(* [status |-> "ok", blocks |-> <<block, ...>>]; a block is                *)
(* [author, text, tags], author and text being None when the block has no  *)
(* small.author or no span.text element.  text is the text after strip.    *)
(***************************************************************************)
\* the record stored in authors_dict on the first sight of a name
new_author(name) ==
    [name |-> name, birth_date |-> None, death_date |-> None, openlibrary_key |-> None]

\* lines 401-411 of one block: st = [dict, name, quotes, tags, raised]
block_author(block, st) ==
    IF block.author = None THEN st
    ELSE [st EXCEPT !.name = block.author,
                    !.dict = IF block.author \in Range(st.dict) THEN st.dict
                             ELSE Append(st.dict, block.author)]

\* lines 414-430 of one block; the read of an unbound author_name raises NameError
block_quote(block, st) ==
    IF block.text = None THEN st
    ELSE IF st.name = Unbound THEN [st EXCEPT !.raised = TRUE]
    ELSE [st EXCEPT !.quotes = Append(st.quotes,
                                      [text |-> block.text, author |-> st.name,
                                       tags |-> block.tags, db_id |-> NoId]),
                    !.tags = st.tags \cup Range(block.tags)]

RECURSIVE collect_quotes(_, _)
\* the for loop over quotes_containers, left at the first exception
collect_quotes(blocks, st) ==
    IF blocks = <<>> \/ st.raised THEN st
    ELSE collect_quotes(Tail(blocks), block_quote(Head(blocks), block_author(Head(blocks), st)))

quotes_page_breaks(resp) ==
    \/ resp.status = "404"
    \/ resp.status = "error"
    \/ resp.status = "ok" /\ resp.blocks = <<>>

quote_resp_kind(resp) ==
    IF resp.status = "ok" /\ resp.blocks = <<>> THEN "empty" ELSE resp.status

\* line 440: self.authors = list(authors_dict.values())
authors_of(dict) == [i \in DOMAIN dict |-> new_author(dict[i])]

\* lines 376-379: the method starts, page = 1, authors_dict = {}
extract_authors_begin ==
    /\ Enter("extract_authors_from_quotes")
    /\ page = 0
    /\ Stay("extract_authors_from_quotes")
    /\ page' = 1
    /\ authors_dict' = <<>>
    /\ author_name' = Unbound
    /\ last' = [op |-> "extract_authors_begin"]
    /\ UNCHANGED <<conn, categories, books, publishers, authors, quotes, tags,
                   errlog, db, seqs, tx_failed, faults, files>>

\* lines 381-441: one iteration of the while loop, and the return after a break
extract_authors_page(resp) ==
    /\ pc = "extract_authors_from_quotes"
    /\ page > 0
    /\ IF quotes_page_breaks(resp)
       THEN /\ errlog' = IF resp.status = "error"
                         THEN errlog \cup {"extract_authors_from_quotes"} ELSE errlog
            /\ last' = [op |-> "extract_authors_page", page |-> page,
                        status |-> quote_resp_kind(resp)]
            /\ authors' = authors_of(authors_dict)
            /\ page' = 0
            /\ authors_dict' = <<>>
            /\ author_name' = Unbound
            /\ Return("extract_authors_from_quotes")
            /\ UNCHANGED <<quotes, tags>>
       ELSE LET st == collect_quotes(resp.blocks,
                                     [dict |-> authors_dict, name |-> author_name,
                                      quotes |-> quotes, tags |-> tags, raised |-> FALSE])
            IN  /\ quotes' = st.quotes
                /\ tags' = st.tags
                /\ last' = [op |-> "extract_authors_page", page |-> page,
                            status |-> IF st.raised THEN "raised" ELSE "ok"]
                /\ IF st.raised
                   THEN /\ errlog' = errlog \cup {"extract_authors_from_quotes"}
                        /\ authors' = authors_of(st.dict)
                        /\ page' = 0
                        /\ authors_dict' = <<>>
                        /\ author_name' = Unbound
                        /\ Return("extract_authors_from_quotes")
                   ELSE /\ page' = page + 1
                        /\ authors_dict' = st.dict
                        /\ author_name' = st.name
                        /\ Stay("extract_authors_from_quotes")
                        /\ UNCHANGED <<errlog, authors>>
    /\ UNCHANGED <<conn, categories, books, publishers, db, seqs, tx_failed, faults, files>>

QuoteBlocks(names, texts, taglists) ==
    [author : names \cup {None}, text : texts \cup {None}, tags : taglists]

QuoteResponses(names, texts, taglists, n) ==
    {[status |-> "404"], [status |-> "error"]}
    \cup {[status |-> "ok", blocks |-> l] : l \in SeqsUpTo(QuoteBlocks(names, texts, taglists), n)}

(***************************************************************************)
(* The PostgreSQL schema of create_tables and the statements run on it.    *)
(*                                                                         *)
(* A transaction is T = [db, seqs, n, err, aborted]: the rows as the       *)
(* transaction sees them, the sequences, the number of execute() calls     *)
(* made by the running method, whether the try block raised, and whether   *)
(* the connection was left in an aborted transaction.  A fault names the   *)
(* execute() call that the database refuses, or the commit.                *)
(***************************************************************************)
NULL == 0

NoFault == [at |-> "none"]

\* UNIQUE constraints: the columns of the key of each table that has one
UniqueKey(tbl) ==
    CASE tbl = "categories" -> {"name"}
      [] tbl = "publishers" -> {"name"}
      [] tbl = "tags" -> {"name"}
      [] tbl = "authors" -> {"name", "birth_date"}
      [] tbl = "book_authors" -> {"book_id", "author_id"}
      [] tbl = "quote_tags" -> {"quote_id", "tag_id"}
      [] OTHER -> {}

IdColumns == {"id", "category_id", "publisher_id", "book_id", "author_id", "quote_id", "tag_id"}

IsNull(c, v) == IF c \in IdColumns THEN v = NULL ELSE v = None

\* Conflicts for tables declared without their UNIQUE constraint
Conflicts_never(tbl, row, rows) == FALSE

\* a row of the table has the key of row; PostgreSQL treats NULLs in a
\* UNIQUE key as distinct, so a key that holds a NULL conflicts with nothing
Conflicts(tbl, row, rows) ==
    /\ UniqueKey(tbl) /= {}
    /\ \A c \in UniqueKey(tbl) : ~IsNull(c, row[c])
    /\ \E r \in rows : \A c \in UniqueKey(tbl) : r[c] = row[c]

\* REFERENCES constraints: column -> referenced table
ForeignKeys(tbl) ==
    CASE tbl = "books" -> {<<"category_id", "categories">>, <<"publisher_id", "publishers">>}
      [] tbl = "book_authors" -> {<<"book_id", "books">>, <<"author_id", "authors">>}
      [] tbl = "quotes" -> {<<"author_id", "authors">>}
      [] tbl = "quote_tags" -> {<<"quote_id", "quotes">>, <<"tag_id", "tags">>}
      [] OTHER -> {}

\* FkHolds for tables declared without their REFERENCES constraints
FkHolds_unchecked(d, tbl, row) == TRUE

\* every non-NULL foreign key of row references an existing row
FkHolds(d, tbl, row) ==
    \A fk \in ForeignKeys(tbl) :
        IsNull(fk[1], row[fk[1]]) \/ \E r \in d[fk[2]] : r.id = row[fk[1]]

\* CHECK constraints: rating INTEGER CHECK (rating >= 1 AND rating <= 5); a
\* NULL passes
CheckHolds(tbl, row) ==
    tbl = "books" => (row.rating = NoInt \/ (row.rating >= 1 /\ row.rating <= 5))

\* cursor.execute of a statement: the call is counted, and raises when it is
\* the faulty one or when the transaction is already aborted
Execute(T, fault) ==
    [T EXCEPT !.n = @ + 1,
              !.err = T.err \/ T.aborted \/ (fault.at = "execute" /\ fault.k = T.n + 1)]

\* INSERT INTO tbl ... [ON CONFLICT DO NOTHING]: nextval is taken first (and
\* never given back), a conflicting row is skipped, a missing parent or a
\* failed CHECK raises
Insert(T, fault, tbl, values) ==
    LET T1 == Execute(T, fault)
        id == T1.seqs[tbl] + 1
        row == [c \in (DOMAIN values) \cup {"id"} |-> IF c = "id" THEN id ELSE values[c]]
        T2 == [T1 EXCEPT !.seqs[tbl] = id]
    IN  IF T1.err THEN T1
        ELSE IF Conflicts(tbl, row, T2.db[tbl]) THEN T2
        ELSE IF ~FkHolds(T2.db, tbl, row) \/ ~CheckHolds(tbl, row) THEN [T2 EXCEPT !.err = TRUE]
        ELSE [T2 EXCEPT !.db[tbl] = @ \cup {row}]

\* the method starts a transaction on the connection
Begin == [db |-> db, seqs |-> seqs, n |-> 0, err |-> FALSE, aborted |-> tx_failed]

\* a Python exception inside the try block
Raise(T) == [T EXCEPT !.err = TRUE]

\* the end of an insert method: conn.commit() and SELECT COUNT(*), or the
\* except branch with conn.rollback(); the sequences are not rolled back.
\* A fault is one that the method meets
Finish(T, fault, method) ==
    LET committed == ~T.err /\ fault.at /= "commit"
        counted == committed /\ ~Execute([T EXCEPT !.aborted = FALSE], fault).err
    IN  /\ fault.at /= "none" => faults > 0 /\ ~counted
        /\ faults' = IF fault.at = "none" THEN faults ELSE faults - 1
        /\ db' = IF committed THEN T.db ELSE db
        /\ seqs' = T.seqs
        /\ tx_failed' = FALSE
        /\ errlog' = IF counted THEN errlog ELSE errlog \cup {method}
        /\ last' = [op |-> method, committed |-> committed, raised |-> ~counted,
                    injected |-> fault.at /= "none"]

(***************************************************************************)
(* The insert methods.  Each is one transaction; its random draws and the  *)
(* order in which the database returns rows are inputs.                    *)
(***************************************************************************)
RECURSIVE insert_names(_, _, _, _)
\* for x in names: INSERT INTO tbl (name) VALUES (x) ON CONFLICT (name) DO NOTHING
insert_names(T, fault, tbl, names) ==
    IF names = <<>> \/ T.err THEN T
    ELSE insert_names(Insert(T, fault, tbl, [name |-> Head(names)]), fault, tbl, Tail(names))

insert_categories(fault) ==
    /\ Enter("insert_categories")
    /\ Return("insert_categories")
    /\ Finish(insert_names(Begin, fault, "categories", categories), fault, "insert_categories")
    /\ UNCHANGED <<conn, categories, books, publishers, authors, quotes, tags, page,
                   authors_dict, author_name, files>>

insert_publishers(fault) ==
    /\ Enter("insert_publishers")
    /\ Return("insert_publishers")
    /\ Finish(insert_names(Begin, fault, "publishers", publishers), fault, "insert_publishers")
    /\ UNCHANGED <<conn, categories, books, publishers, authors, quotes, tags, page,
                   authors_dict, author_name, files>>

\* the orders in which a set can be iterated
Orders(S) == {o \in [1..Cardinality(S) -> S] : \A i, j \in DOMAIN o : o[i] = o[j] => i = j}

\* order: the iteration order of the set self.tags
insert_tags(order, fault) ==
    /\ Enter("insert_tags")
    /\ Return("insert_tags")
    /\ order \in Orders(tags)
    /\ Finish(insert_names(Begin, fault, "tags", order), fault, "insert_tags")
    /\ UNCHANGED <<conn, categories, books, publishers, authors, quotes, tags, page,
                   authors_dict, author_name, files>>

RECURSIVE insert_author_rows(_, _, _)
\* for author in self.authors: INSERT ... ON CONFLICT (name, birth_date) DO NOTHING
insert_author_rows(T, fault, as) ==
    IF as = <<>> \/ T.err THEN T
    ELSE insert_author_rows(
             Insert(T, fault, "authors",
                    [name |-> Head(as).name, birth_date |-> Head(as).birth_date,
                     death_date |-> Head(as).death_date,
                     openlibrary_key |-> Head(as).openlibrary_key]),
             fault, Tail(as))

insert_authors(fault) ==
    /\ Enter("insert_authors")
    /\ Return("insert_authors")
    /\ Finish(insert_author_rows(Begin, fault, authors), fault, "insert_authors")
    /\ UNCHANGED <<conn, categories, books, publishers, authors, quotes, tags, page,
                   authors_dict, author_name, files>>

\* {row[1]: row[0] for row in cursor.fetchall()} over SELECT id, name: the
\* maps from each name of the table to the id of a row with that name (the
\* row that is fetched last wins when several rows share a name)
NameMaps(rows) ==
    LET names == {r.name : r \in rows}
    IN  {m \in [names -> {r.id : r \in rows}] :
             \A x \in names : \E r \in rows : r.name = x /\ r.id = m[x]}

\* dict.get(key)
Get(m, key) == IF key \in DOMAIN m THEN m[key] ELSE NULL

RECURSIVE insert_book_rows(_, _, _, _, _, _, _)
\* the for loop of insert_books from book i on; st = [T, books];
\* pick_cat[i], pick_pub[i]: the draws of random.choice for book i
insert_book_rows(st, fault, i, cmap, pmap, pick_cat, pick_pub) ==
    IF i > Len(st.books) \/ st.T.err THEN st
    ELSE LET book == st.books[i]
             found == Get(cmap, book.category)
             need_cat == found = NULL /\ categories /= <<>>
         IN  IF need_cat /\ DOMAIN cmap = {} THEN [st EXCEPT !.T = Raise(@)]
             ELSE IF DOMAIN pmap = {} THEN [st EXCEPT !.T = Raise(@)]
             ELSE LET category_id == IF need_cat THEN cmap[pick_cat[i]] ELSE found
                      T1 == Insert(st.T, fault, "books",
                                   [title |-> book.title, rating |-> book.rating,
                                    category_id |-> category_id,
                                    publisher_id |-> pmap[pick_pub[i]]])
                  IN  insert_book_rows(
                          [T |-> T1,
                           books |-> IF T1.err THEN st.books
                                     ELSE [st.books EXCEPT ![i].db_id = T1.seqs["books"]]],
                          fault, i + 1, cmap, pmap, pick_cat, pick_pub)

\* the draws that random.choice can make for every book (any value when the
\* list drawn from is empty: the draw then raises before it is used)
Picks(n, S) == IF S = {} THEN {[i \in 1..n |-> None]} ELSE [1..n -> S]

insert_books(pick_cat, pick_pub, fault) ==
    /\ Enter("insert_books")
    /\ Return("insert_books")
    /\ LET T0 == Execute(Execute(Begin, fault), fault)
           cmap == CHOOSE m \in NameMaps(db.categories) : TRUE
           pmap == CHOOSE m \in NameMaps(db.publishers) : TRUE
           st == insert_book_rows([T |-> T0, books |-> books], fault, 1,
                                  cmap, pmap, pick_cat, pick_pub)
       IN  /\ pick_cat \in Picks(Len(books), DOMAIN cmap)
           /\ pick_pub \in Picks(Len(books), DOMAIN pmap)
           /\ books' = st.books
           /\ Finish(st.T, fault, "insert_books")
    /\ UNCHANGED <<conn, categories, publishers, authors, quotes, tags, page,
                   authors_dict, author_name, files>>

Min(a, b) == IF a < b THEN a ELSE b

\* random.sample(authors_list, k) for the k that random.randint(1, min(3, n))
\* can return: the sequences of 1 to min(3, n) distinct names
Samples(names) ==
    {q \in SeqsUpTo(names, Min(3, Cardinality(names))) :
         q /= <<>> /\ \A i, j \in DOMAIN q : q[i] = q[j] => i = j}

RECURSIVE insert_pairs(_, _, _, _, _, _)
\* one INSERT ... ON CONFLICT DO NOTHING per id of ids, paired with left_id
insert_pairs(T, fault, tbl, cols, left_id, ids) ==
    IF ids = <<>> \/ T.err THEN T
    ELSE insert_pairs(
             Insert(T, fault, tbl,
                    [c \in {cols[1], cols[2]} |-> IF c = cols[1] THEN left_id ELSE Head(ids)]),
             fault, tbl, cols, left_id, Tail(ids))

RECURSIVE insert_book_author_rows(_, _, _, _, _)
\* the for loop of insert_book_authors_relations from book i on;
\* sel[i]: the authors sampled for book i
insert_book_author_rows(T, fault, i, amap, sel) ==
    IF i > Len(books) \/ T.err THEN T
    ELSE IF books[i].db_id = NoId THEN insert_book_author_rows(T, fault, i + 1, amap, sel)
    ELSE IF DOMAIN amap = {} THEN Raise(T)
    ELSE insert_book_author_rows(
             insert_pairs(T, fault, "book_authors", <<"book_id", "author_id">>,
                          books[i].db_id, [k \in DOMAIN sel[i] |-> amap[sel[i][k]]]),
             fault, i + 1, amap, sel)

insert_book_authors_relations(amap, sel, fault) ==
    /\ Enter("insert_book_authors_relations")
    /\ Return("insert_book_authors_relations")
    /\ amap \in NameMaps(db.authors)
    /\ sel \in Picks(Len(books), Samples(DOMAIN amap))
    /\ Finish(insert_book_author_rows(Execute(Begin, fault), fault, 1, amap, sel),
              fault, "insert_book_authors_relations")
    /\ UNCHANGED <<conn, categories, books, publishers, authors, quotes, tags, page,
                   authors_dict, author_name, files>>

\* the draw random.random() < 0.3 followed by random.choice of an empty list
IndexError == "IndexError"

RECURSIVE insert_quote_rows(_, _, _, _, _)
\* the for loop of insert_quotes from quote i on; st = [T, quotes];
\* src[i]: None, the title drawn for quote i, or IndexError
insert_quote_rows(st, fault, i, amap, src) ==
    IF i > Len(st.quotes) \/ st.T.err THEN st
    ELSE IF src[i] = IndexError THEN [st EXCEPT !.T = Raise(@)]
    ELSE LET quote == st.quotes[i]
             T1 == Insert(st.T, fault, "quotes",
                          [text |-> quote.text, author_id |-> Get(amap, quote.author),
                           book_source |-> src[i]])
         IN  insert_quote_rows(
                 [T |-> T1,
                  quotes |-> IF T1.err THEN st.quotes
                             ELSE [st.quotes EXCEPT ![i].db_id = T1.seqs["quotes"]]],
                 fault, i + 1, amap, src)

\* SELECT title FROM books LIMIT 50
book_titles == {r.title : r \in db.books}

insert_quotes(amap, src, fault) ==
    /\ Enter("insert_quotes")
    /\ Return("insert_quotes")
    /\ amap \in NameMaps(db.authors)
    /\ src \in [1..Len(quotes) ->
                   {None} \cup (IF book_titles = {} THEN {IndexError} ELSE book_titles)]
    /\ LET st == insert_quote_rows([T |-> Execute(Execute(Begin, fault), fault),
                                    quotes |-> quotes], fault, 1, amap, src)
       IN  /\ quotes' = st.quotes
           /\ Finish(st.T, fault, "insert_quotes")
    /\ UNCHANGED <<conn, categories, books, publishers, authors, tags, page,
                   authors_dict, author_name, files>>

\* the tags of a quote that tags_map knows, as tag ids
known_tag_ids(tmap, quote_tags) ==
    LET known == SelectSeq(quote_tags, LAMBDA t : t \in DOMAIN tmap)
    IN  [k \in DOMAIN known |-> tmap[known[k]]]

RECURSIVE insert_quote_tag_rows(_, _, _, _)
\* the for loop of insert_quote_tags_relations from quote i on
insert_quote_tag_rows(T, fault, i, tmap) ==
    IF i > Len(quotes) \/ T.err THEN T
    ELSE IF quotes[i].db_id = NoId THEN insert_quote_tag_rows(T, fault, i + 1, tmap)
    ELSE insert_quote_tag_rows(
             insert_pairs(T, fault, "quote_tags", <<"quote_id", "tag_id">>,
                          quotes[i].db_id, known_tag_ids(tmap, quotes[i].tags)),
             fault, i + 1, tmap)

insert_quote_tags_relations(fault) ==
    /\ Enter("insert_quote_tags_relations")
    /\ Return("insert_quote_tags_relations")
    /\ Finish(insert_quote_tag_rows(Execute(Begin, fault), fault, 1,
                                    CHOOSE m \in NameMaps(db.tags) : TRUE),
              fault, "insert_quote_tags_relations")
    /\ UNCHANGED <<conn, categories, books, publishers, authors, quotes, tags, page,
                   authors_dict, author_name, files>>

(***************************************************************************)
(* connect_db, create_tables, generate_publishers, enrichment, reporting,  *)
(* export, close_connection and the handlers of run_full_pipeline          *)
(***************************************************************************)
\* Propagate without the finally block of run_full_pipeline
Propagate_no_finally(p) ==
    /\ pc' = IF mode = "pipeline" THEN "done" ELSE "idle"
    /\ calls' = IF mode = "pipeline" THEN calls ELSE [calls EXCEPT !.total = @ - 1]
    /\ ran' = IF mode = "pipeline" THEN ran \cup {p} ELSE ran
    /\ UNCHANGED mode

\* an exception leaves method p: run_full_pipeline logs it, rolls back when
\* self.conn is set and goes to its finally block; a direct caller gets it
Propagate(p) ==
    /\ pc' = IF mode = "pipeline" THEN "close_connection" ELSE "idle"
    /\ calls' = IF mode = "pipeline" THEN calls ELSE [calls EXCEPT !.total = @ - 1]
    /\ ran' = IF mode = "pipeline" THEN ran \cup {p} ELSE ran
    /\ UNCHANGED mode

PropagateLog(p) == IF mode = "pipeline" THEN {p, "run_full_pipeline"} ELSE {p}

\* ok: psycopg2.connect succeeds
connect_db(ok) ==
    /\ Enter("connect_db")
    /\ IF ok
       THEN /\ conn' = "open"
            /\ Return("connect_db")
            /\ UNCHANGED errlog
       ELSE /\ UNCHANGED conn
            /\ errlog' = errlog \cup PropagateLog("connect_db")
            /\ Propagate("connect_db")
    /\ tx_failed' = FALSE
    /\ last' = [op |-> "connect_db", raised |-> ~ok]
    /\ UNCHANGED <<categories, books, publishers, authors, quotes, tags, page,
                   authors_dict, author_name, db, seqs, faults, files>>

\* the except branch of create_tables without its raise
create_tables_except_no_raise ==
    /\ errlog' = errlog \cup {"create_tables"}
    /\ Return("create_tables")

\* the except branch of create_tables: rollback, log, raise
create_tables_except ==
    /\ errlog' = errlog \cup PropagateLog("create_tables")
    /\ Propagate("create_tables")

\* the DROP / CREATE script, committed, or rolled back and re-raised
create_tables(fault) ==
    /\ Enter("create_tables")
    /\ conn = "open"
    /\ LET T == Execute(Begin, fault)
           ok == ~T.err /\ fault.at /= "commit"
       IN  /\ fault.at /= "none" => faults > 0 /\ ~ok
           /\ faults' = IF fault.at = "none" THEN faults ELSE faults - 1
           /\ db' = IF ok THEN EmptyDb ELSE db
           /\ seqs' = IF ok THEN [t \in TableNames |-> 0] ELSE seqs
           /\ last' = [op |-> "create_tables", raised |-> ~ok]
           /\ IF ok
              THEN Return("create_tables") /\ UNCHANGED errlog
              ELSE create_tables_except
    /\ tx_failed' = FALSE
    /\ UNCHANGED <<conn, categories, books, publishers, authors, quotes, tags, page,
                   authors_dict, author_name, files>>

\* the first names of self.fictional_publishers
fictional_publishers == <<"Penguin Random House", "HarperCollins">>

\* order: the result of random.shuffle
generate_publishers(order) ==
    /\ Enter("generate_publishers")
    /\ Return("generate_publishers")
    /\ order \in Orders(Range(fictional_publishers))
    /\ publishers' = order
    /\ last' = [op |-> "generate_publishers"]
    /\ UNCHANGED <<conn, categories, books, authors, quotes, tags, page, authors_dict,
                   author_name, errlog, db, seqs, tx_failed, faults, files>>

\* the date stored for the year that the regular expression finds
Jan1(year) ==
    CASE year = "1900" -> "1900-01-01"
      [] year = "1950" -> "1950-01-01"

\* one author after the lookup answered resp:
\*   [status |-> "error"]   the request, the status, the JSON or its shape fails
\*   [status |-> "ok", docs |-> FALSE]
\*   [status |-> "ok", docs |-> TRUE, key, birth, death]; key is None when
\*   absent; birth and death are None when absent or without a 4-digit year,
\*   else the year found
enrich_author(author, resp) ==
    IF resp.status = "error" \/ ~resp.docs THEN author
    ELSE [author EXCEPT
             !.openlibrary_key = IF resp.key = None THEN @ ELSE resp.key,
             !.birth_date = IF resp.birth = None THEN @ ELSE Jan1(resp.birth),
             !.death_date = IF resp.death = None THEN @ ELSE Jan1(resp.death)]

\* enrich_loop leaving the loop at the first lookup that fails
enrich_loop_stops(as, resps) ==
    [i \in DOMAIN as |-> IF \E j \in 1..i : resps[j].status = "error" THEN as[i]
                         ELSE enrich_author(as[i], resps[i])]

\* the for loop over self.authors: a failing lookup is logged and the loop
\* continues with the next author
enrich_loop(as, resps) == [i \in DOMAIN as |-> enrich_author(as[i], resps[i])]

\* resps[i]: the answer to the lookup of self.authors[i]
enrich_authors_with_openlibrary(resps) ==
    /\ Enter("enrich_authors_with_openlibrary")
    /\ Return("enrich_authors_with_openlibrary")
    /\ DOMAIN resps = DOMAIN authors
    /\ authors' = enrich_loop(authors, resps)
    /\ errlog' = IF \E i \in DOMAIN resps : resps[i].status = "error"
                 THEN errlog \cup {"enrich_authors_with_openlibrary"} ELSE errlog
    /\ last' = [op |-> "enrich_authors_with_openlibrary", resps |-> resps]
    /\ UNCHANGED <<conn, categories, books, publishers, quotes, tags, page, authors_dict,
                   author_name, db, seqs, tx_failed, faults, files>>

RECURSIVE Executes(_, _, _)
\* n execute() calls in a row
Executes(T, fault, n) == IF n = 0 \/ T.err THEN T ELSE Executes(Execute(T, fault), fault, n - 1)

\* a reporting method: its queries run inside try, the except branch logs
\* and does not roll back, so a refused query leaves the transaction aborted
Report(T, fault, method, python_error) ==
    /\ fault.at \in {"none", "execute"}
    /\ fault.at /= "none" => faults > 0 /\ T.err
    /\ faults' = IF fault.at = "none" THEN faults ELSE faults - 1
    /\ tx_failed' = T.err
    /\ errlog' = IF T.err \/ python_error THEN errlog \cup {method} ELSE errlog
    /\ last' = [op |-> method, raised |-> T.err \/ python_error]

display_summary(fault) ==
    /\ Enter("display_summary")
    /\ Return("display_summary")
    /\ Report(Executes(Begin, fault, Cardinality(TableNames)), fault, "display_summary", FALSE)
    /\ UNCHANGED <<conn, categories, books, publishers, authors, quotes, tags, page,
                   authors_dict, author_name, db, seqs, files>>

\* the statistics query cross joins books, authors, quotes and categories:
\* with one of them empty, or with no book that has a price (no_price),
\* AVG(b.price) is NULL and its formatting raises
verify_relations(no_price, fault) ==
    /\ Enter("verify_relations")
    /\ Return("verify_relations")
    /\ Report(Executes(Begin, fault, 4), fault, "verify_relations",
              no_price \/ \E t \in {"books", "authors", "quotes", "categories"} : db[t] = {})
    /\ UNCHANGED <<conn, categories, books, publishers, authors, quotes, tags, page,
                   authors_dict, author_name, db, seqs, files>>

\* the collation of ORDER BY on the texts of the model
TextOrder == <<"Jane Doe", "John Roe", "t1", "t2">>

Rank(x) == CHOOSE i \in DOMAIN TextOrder : TextOrder[i] = x

\* the orders in which a query with ORDER BY key can return the rows of S:
\* rows with equal keys come in any order
SortedBy(S, key(_)) ==
    {o \in Orders(S) : \A i, j \in DOMAIN o : i < j => key(o[i]) <= key(o[j])}

\* the row of the table that the foreign key id references
Parent(rows, id) == CHOOSE r \in rows : r.id = id

\* SELECT b.title, c.name, p.name FROM books b JOIN categories c ...
\* JOIN publishers p ... ORDER BY b.title
books_export_rows(d) ==
    LET joined == {b \in d.books : /\ \E c \in d.categories : c.id = b.category_id
                                    /\ \E q \in d.publishers : q.id = b.publisher_id}
    IN  {[i \in DOMAIN o |->
             [title |-> o[i].title,
              category |-> Parent(d.categories, o[i].category_id).name,
              publisher |-> Parent(d.publishers, o[i].publisher_id).name]] :
         o \in SortedBy(joined, LAMBDA b : Rank(b.title))}

\* the names that ARRAY_AGG(t.name) collects for quote q
quote_tag_names(d, q) ==
    {t.name : t \in {u \in d.tags : \E qt \in d.quote_tags :
                                        qt.quote_id = q.id /\ qt.tag_id = u.id}}

\* SELECT q.text, a.name, q.book_source, ARRAY_AGG(t.name) FROM quotes q
\* JOIN authors a ... LEFT JOIN quote_tags ... LEFT JOIN tags ...
\* GROUP BY q.id, ... ORDER BY a.name, and the list built from each row;
\* the aggregate has no ORDER BY, so the tags come in any order
quotes_export_rows(d) ==
    LET joined == {q \in d.quotes : \E a \in d.authors : a.id = q.author_id}
        aggs == {tg \in [{q.id : q \in joined} ->
                            UNION {Orders(quote_tag_names(d, q)) : q \in joined}] :
                     \A q \in joined : tg[q.id] \in Orders(quote_tag_names(d, q))}
    IN  {[i \in DOMAIN o |->
             [text |-> o[i].text,
              author |-> Parent(d.authors, o[i].author_id).name,
              book_source |-> o[i].book_source,
              tags |-> tg[o[i].id]]] :
         o \in SortedBy(joined, LAMBDA q : Rank(Parent(d.authors, q.author_id).name)),
         tg \in aggs}

\* SELECT a.name, b.title FROM authors a JOIN book_authors ba ... JOIN books b
\* ... ORDER BY a.name, b.title
relations_export_rows(d) ==
    LET key(ba) == Rank(Parent(d.authors, ba.author_id).name) * (Len(TextOrder) + 1)
                   + Rank(Parent(d.books, ba.book_id).title)
    IN  {[i \in DOMAIN o |->
             [author |-> Parent(d.authors, o[i].author_id).name,
              book |-> Parent(d.books, o[i].book_id).title]] :
         o \in SortedBy(d.book_authors, key)}

\* what the three queries of export_to_csv_json can return
ExportResults(d) ==
    {<<b, q, r>> : b \in books_export_rows(d), q \in quotes_export_rows(d),
                   r \in relations_export_rows(d)}

\* each file is written after its query returned; results: the rows that
\* the three queries return
export_to_csv_json(results, fault) ==
    /\ Enter("export_to_csv_json")
    /\ Return("export_to_csv_json")
    /\ results \in ExportResults(db)
    /\ LET T == Executes(Begin, fault, Len(ExportFiles))
           written == IF T.err THEN T.n - 1 ELSE T.n
       IN  /\ Report(T, fault, "export_to_csv_json", FALSE)
           /\ files' = [f \in DOMAIN files |->
                           IF \E i \in 1..written : ExportFiles[i] = f
                           THEN [written |-> TRUE,
                                 rows |-> results[CHOOSE i \in 1..written : ExportFiles[i] = f]]
                           ELSE files[f]]
    /\ UNCHANGED <<conn, categories, books, publishers, authors, quotes, tags, page,
                   authors_dict, author_name, db, seqs>>

\* the finally block of run_full_pipeline
close_connection ==
    /\ Enter("close_connection")
    /\ Return("close_connection")
    /\ conn' = IF conn = "none" THEN "none" ELSE "closed"
    /\ last' = [op |-> "close_connection"]
    /\ UNCHANGED <<categories, books, publishers, authors, quotes, tags, page, authors_dict,
                   author_name, errlog, db, seqs, tx_failed, faults, files>>

(***************************************************************************)
(* SpecCategories: extract_categories called repeatedly on a new object    *)
(***************************************************************************)
InitCategories ==
    /\ InitObject
    /\ mode = "direct" /\ pc = "idle" /\ ran = {}
    /\ calls = CallPlan({"extract_categories"}, MaxCatCalls)
    /\ faults = 0

NextCategories == \E resp \in NavResponses : extract_categories(resp)

SpecCategories == InitCategories /\ [][NextCategories]_vars

\* C8: after extract_categories the names of self.categories are pairwise
\* distinct and none of them is the root navigation label "Books"
C8_DistinctAndNoRoot ==
    /\ \A i, j \in 1..Len(categories) : categories[i] = categories[j] => i = j
    /\ \A i \in 1..Len(categories) : categories[i] /= RootLabel

(***************************************************************************)
(* SpecExtract: extract_books or extract_authors_from_quotes called on a   *)
(* new object; every listing response is chosen when it is fetched         *)
(***************************************************************************)
ExtractTitles == {"t1"}

ExtractCats == {<<>>, <<"Travel">>}

ExtractNames == {"Jane Doe", "John Roe"}

ExtractTexts == {"q1"}

ExtractTagLists == {<<>>, <<"life">>}

InitExtract ==
    /\ InitObject
    /\ mode = "direct" /\ pc = "idle" /\ ran = {}
    /\ \E called \in {"extract_books", "extract_authors_from_quotes"} :
           calls = CallPlan({called}, 1)
    /\ faults = 0

StepBooksPage(responses) ==
    \E resp \in responses :
        /\ extract_books_page(resp)
        /\ Len(books') <= MaxBooks

StepAuthorsPage(responses) ==
    \E resp \in responses :
        /\ extract_authors_page(resp)
        /\ Len(quotes') <= MaxQuotes
        /\ page' <= MaxQuotePages

NextExtract ==
    \/ extract_books_begin
    \/ StepBooksPage(BookResponses(ExtractTitles, ExtractCats, MaxItems))
    \/ extract_authors_begin
    \/ StepAuthorsPage(QuoteResponses(ExtractNames, ExtractTexts, ExtractTagLists, MaxBlocks))

SpecExtract == InitExtract /\ [][NextExtract]_vars

IsPrefix(s, t) == Len(s) <= Len(t) /\ SubSeq(t, 1, Len(s)) = s

\* C5: a listing page that answers 404 or holds no item container ends the
\* pagination loop of extract_books and of extract_authors_from_quotes
\* without an error, and every record collected from the earlier pages is
\* still in self.books, self.quotes and self.authors
C5_PaginationEnds ==
    [][/\ (last'.op = "extract_books_page" /\ last'.status \in {"404", "empty"})
          => /\ page' = 0
             /\ pc' /= "extract_books"
             /\ books' = books
             /\ errlog' = errlog
       /\ (last'.op = "extract_authors_page" /\ last'.status \in {"404", "empty"})
          => /\ page' = 0
             /\ pc' /= "extract_authors_from_quotes"
             /\ quotes' = quotes
             /\ errlog' = errlog
             /\ \A i \in DOMAIN authors_dict :
                    \E j \in DOMAIN authors' : authors'[j].name = authors_dict[i]
       /\ last'.op = "extract_books_page" => IsPrefix(books, books')
       /\ last'.op = "extract_authors_page"
          => IsPrefix(quotes, quotes') /\ (page' > 0 => IsPrefix(authors_dict, authors_dict'))
      ]_vars

\* a loop was ended by a 404 or an empty page after records were collected
C5_Witness ==
    \/ /\ last.op = "extract_authors_page" /\ last.status \in {"404", "empty"}
       /\ last.page > 1
       /\ Len(quotes) > 0 /\ Len(authors) > 0
    \/ /\ last.op = "extract_books_page" /\ last.status \in {"404", "empty"}
       /\ last.page > 1
       /\ Len(books) > 0

FirstError(kinds) ==
    CHOOSE i \in DOMAIN kinds : kinds[i] /= "ok" /\ \A j \in 1..(i - 1) : kinds[j] = "ok"

\* C6 as stated: after any error in extract_books (listing page, container,
\* detail page) the loop is over and no later container is appended
C6_AnyErrorEndsPhase ==
    [][(last'.op = "extract_books_page"
        /\ (last'.status = "error" \/ \E i \in DOMAIN last'.kinds : last'.kinds[i] /= "ok"))
       => /\ page' = 0
          /\ IsPrefix(books, books')
          /\ last'.status = "error" => books' = books
          /\ last'.status = "ok" => Len(books') - Len(books) <= FirstError(last'.kinds)
      ]_vars

\* C6 amended: an error on a listing page ends extract_books with the
\* collected records kept; an error in one container skips that container
\* only, a failing detail page still appends the book, and the following
\* containers and pages are processed
C6_ListingErrorEndsPhase ==
    [][last'.op = "extract_books_page"
       => /\ IsPrefix(books, books')
          /\ last'.status = "error"
             => /\ page' = 0 /\ pc' /= "extract_books"
                /\ books' = books
                /\ "extract_books" \in errlog'
          /\ last'.status = "ok"
             => /\ Len(books') - Len(books) =
                      Cardinality({i \in DOMAIN last'.kinds : last'.kinds[i] /= "container_error"})
                /\ \/ page' = page + 1 /\ pc' = "extract_books"
                   \/ page + 1 > PageCap /\ page' = 0 /\ pc' /= "extract_books"
      ]_vars

\* a page whose first container failed and whose second was appended, the
\* next page being fetched
C6_Witness ==
    /\ last.op = "extract_books_page" /\ last.status = "ok"
    /\ Len(last.kinds) = 2 /\ last.kinds[1] = "container_error" /\ last.kinds[2] = "ok"
    /\ page = last.page + 1 /\ pc = "extract_books"
    /\ Len(books) > 0

(***************************************************************************)
(* SpecInserts: insert methods called in any order on an object that is    *)
(* connected, has created the tables and has scraped its data.  The caller *)
(* works on the tables of the books or on the tables of the quotes.        *)
(***************************************************************************)
BookInsertMethods ==
    {"insert_categories", "insert_publishers", "insert_authors", "insert_books",
     "insert_book_authors_relations"}

QuoteInsertMethods ==
    {"insert_authors", "insert_tags", "insert_quotes", "insert_quote_tags_relations"}

\* one scraped book, with the category of its breadcrumb or with none
ScrapedBooks(category) ==
    <<[title |-> "t1", rating |-> 3, category |-> category, publication_year |-> NoInt,
       db_id |-> NoId]>>

ScrapedAuthors ==
    <<new_author("Jane Doe"),
      [new_author("John Roe") EXCEPT !.birth_date = "1900-01-01"]>>

ScrapedQuotes ==
    <<[text |-> "q1", author |-> "Jane Doe", tags |-> <<"life">>, db_id |-> NoId],
      [text |-> "q2", author |-> "John Roe", tags |-> <<>>, db_id |-> NoId]>>

\* the faults the database can raise in one method: the k-th execute, or the commit
Faults == {NoFault, [at |-> "commit"]} \cup {[at |-> "execute", k |-> k] : k \in 1..8}

\* the rows of a table after its insert method ran once on the new table
RowsOf(list) == {[c \in (DOMAIN list[i]) \cup {"id"} |-> IF c = "id" THEN i ELSE list[i][c]] :
                    i \in DOMAIN list}

WithIds(list) == [i \in DOMAIN list |-> [list[i] EXCEPT !.db_id = i]]

\* the tables after insert_categories, insert_publishers, insert_authors and
\* insert_tags ran once each without error on the scraped data
ParentsInserted(cats, pubs, auths, tgs) ==
    [EmptyDb EXCEPT
        !.categories = RowsOf([i \in DOMAIN cats |-> [name |-> cats[i]]]),
        !.publishers = RowsOf([i \in DOMAIN pubs |-> [name |-> pubs[i]]]),
        !.authors = RowsOf(auths),
        !.tags = RowsOf([i \in DOMAIN tgs |-> [name |-> tgs[i]]])]

\* the tables after insert_books and insert_quotes ran too, every book that
\* needed a drawn category having drawn the first one, every book the first
\* publisher, and no quote a book source
ChildrenInserted(cats, pubs, auths, tgs, bks, qts) ==
    LET d == ParentsInserted(cats, pubs, auths, tgs)
        cmap == CHOOSE m \in NameMaps(d.categories) : TRUE
        amap == CHOOSE m \in NameMaps(d.authors) : TRUE
    IN  [d EXCEPT
            !.books = RowsOf([i \in DOMAIN bks |->
                                 [title |-> bks[i].title, rating |-> bks[i].rating,
                                  category_id |-> IF Get(cmap, bks[i].category) = NULL /\ cats /= <<>>
                                                  THEN 1 ELSE Get(cmap, bks[i].category),
                                  publisher_id |-> 1]]),
            !.quotes = RowsOf([i \in DOMAIN qts |->
                                  [text |-> qts[i].text, author_id |-> Get(amap, qts[i].author),
                                   book_source |-> None]])]

\* the object has scraped its data (one of four sites) and the caller has
\* already run none, the first four or the first six insert methods
InitInserts ==
    /\ mode = "direct" /\ pc = "idle" /\ ran = {}
    /\ calls \in {CallPlan(BookInsertMethods, MaxInsertCalls),
                  CallPlan(QuoteInsertMethods, MaxInsertCalls)}
    /\ conn = "open"
    /\ publishers = fictional_publishers
    /\ page = 0 /\ authors_dict = <<>> /\ author_name = Unbound
    /\ last = NoLast /\ errlog = {}
    /\ tx_failed = FALSE
    /\ faults = MaxFaults
    /\ files = NoFiles
    /\ \E without \in {"nothing", "breadcrumb", "categories", "quotes"},
          progress \in {"new", "parents", "children"} :
           LET cats == IF without = "categories" THEN <<>> ELSE <<<<"Travel">>>>
               auths == IF without = "quotes" THEN <<>> ELSE ScrapedAuthors
               qts == IF without = "quotes" THEN <<>> ELSE ScrapedQuotes
               tgs == IF without = "quotes" THEN <<>> ELSE <<"life">>
               bks == ScrapedBooks(IF without = "breadcrumb" THEN <<>> ELSE <<"Travel">>)
           IN  /\ categories = cats
               /\ authors = auths
               /\ tags = Range(tgs)
               /\ books = IF progress = "children" THEN WithIds(bks) ELSE bks
               /\ quotes = IF progress = "children" THEN WithIds(qts) ELSE qts
               /\ db = CASE progress = "new" -> EmptyDb
                         [] progress = "parents" ->
                                ParentsInserted(cats, fictional_publishers, auths, tgs)
                         [] progress = "children" ->
                                ChildrenInserted(cats, fictional_publishers, auths, tgs,
                                                 bks, qts)
               /\ seqs = [t \in TableNames |-> Cardinality(db[t])]

\* one insert method runs, meeting a fault of F or none
InsertSteps(F) ==
    \E fault \in F :
        \/ insert_categories(fault)
        \/ insert_publishers(fault)
        \/ insert_authors(fault)
        \/ \E pick_cat \in Picks(Len(books), {r.name : r \in db.categories}),
              pick_pub \in Picks(Len(books), {r.name : r \in db.publishers}) :
               insert_books(pick_cat, pick_pub, fault)
        \/ \E amap \in NameMaps(db.authors) :
               \E sel \in Picks(Len(books), Samples(DOMAIN amap)) :
                   insert_book_authors_relations(amap, sel, fault)
        \/ \E amap \in NameMaps(db.authors),
              src \in [1..Len(quotes) ->
                          {None} \cup (IF book_titles = {} THEN {IndexError} ELSE book_titles)] :
               insert_quotes(amap, src, fault)
        \/ \E order \in Orders(tags) : insert_tags(order, fault)
        \/ insert_quote_tags_relations(fault)

NextInserts == InsertSteps(Faults)

SpecInserts == InitInserts /\ [][NextInserts]_vars

\* C7: after any sequence of insert phases every book_authors row references
\* an existing book row and an existing author row, every quote_tags row an
\* existing quote row and an existing tag row, and no two rows of either
\* table hold the same pair
C7_RelationsReferenceRows ==
    /\ \A r \in db.book_authors :
           /\ \E b \in db.books : b.id = r.book_id
           /\ \E a \in db.authors : a.id = r.author_id
    /\ \A r \in db.quote_tags :
           /\ \E q \in db.quotes : q.id = r.quote_id
           /\ \E t \in db.tags : t.id = r.tag_id
    /\ \A r1, r2 \in db.book_authors :
           r1.book_id = r2.book_id /\ r1.author_id = r2.author_id => r1 = r2
    /\ \A r1, r2 \in db.quote_tags :
           r1.quote_id = r2.quote_id /\ r1.tag_id = r2.tag_id => r1 = r2

\* insert_book_authors_relations offered the database a book id that has no
\* row (insert_books was rolled back after it set db_id) and was refused
C7_Witness ==
    /\ last.op = "insert_book_authors_relations"
    /\ last.raised /\ ~last.injected
    /\ db.authors /= {}
    /\ \E i \in DOMAIN books :
           books[i].db_id /= NoId /\ \A b \in db.books : b.id /= books[i].db_id

\* every name of the list is the name of a row
AllExist(names, rows) == \A x \in names : \E r \in rows : r.name = x

\* C9: running insert_categories when every name of self.categories is
\* already in the categories table leaves the number of category rows
\* unchanged and, unless the database refuses a statement, does not fail
\* the phase; the same for insert_publishers and insert_tags
C9_ReinsertKeepsCount ==
    [][/\ (last'.op = "insert_categories" /\ AllExist(Range(categories), db.categories))
          => /\ Cardinality(db'.categories) = Cardinality(db.categories)
             /\ ~last'.injected => ~last'.raised
       /\ (last'.op = "insert_publishers" /\ AllExist(Range(publishers), db.publishers))
          => /\ Cardinality(db'.publishers) = Cardinality(db.publishers)
             /\ ~last'.injected => ~last'.raised
       /\ (last'.op = "insert_tags" /\ AllExist(tags, db.tags))
          => /\ Cardinality(db'.tags) = Cardinality(db.tags)
             /\ ~last'.injected => ~last'.raised
      ]_vars

\* insert_categories ran without error on names that were all in the table:
\* the sequence moved on and no row was added
C9_Witness ==
    /\ last.op = "insert_categories" /\ ~last.raised
    /\ categories /= <<>>
    /\ faults = MaxFaults
    /\ Cardinality(db.categories) = Len(categories)
    /\ seqs["categories"] > Len(categories)

\* C10: the authors table never holds two rows with the same name and the
\* same (possibly absent) birth_date
C10_AuthorIdentity ==
    \A r1, r2 \in db.authors :
        r1.name = r2.name /\ r1.birth_date = r2.birth_date => r1 = r2
(***************************************************************************)
(* Spec: one execution of run_full_pipeline on a new object.  The books    *)
(* site and the quotes site serve one listing page each; every request     *)
(* can fail, and the database refuses up to MaxFaults statements or        *)
(* commits.  SpecLookups is the same execution on a quotes site with two   *)
(* authors and a database that refuses nothing.                            *)
(***************************************************************************)
InsertPhases ==
    {"insert_categories", "insert_publishers", "insert_authors", "insert_books",
     "insert_book_authors_relations", "insert_quotes", "insert_tags",
     "insert_quote_tags_relations"}

SiteNav == {[status |-> "error"], [status |-> "ok", nav |-> TRUE, links |-> <<<<"Travel">>>>]}

SiteBookPage ==
    [status |-> "ok",
     items |-> <<[kind |-> "ok", title |-> "t1", category |-> <<"Travel">>,
                  classes |-> StockClasses, rows |-> StockRows, draw |-> 2000]>>]

SiteQuotePage ==
    [status |-> "ok", blocks |-> <<[author |-> "Jane Doe", text |-> "q1", tags |-> <<"life">>]>>]

SiteQuotePageTwoAuthors ==
    [status |-> "ok", blocks |-> <<[author |-> "Jane Doe", text |-> "q1", tags |-> <<"life">>],
                                   [author |-> "John Roe", text |-> "q2", tags |-> <<>>]>>]

\* the answers to the request of listing page p of a site whose only page is first
ServeOnce(first, p) ==
    {[status |-> "error"]} \cup (IF p = 1 THEN {first} ELSE {[status |-> "404"]})

LookupFound == [status |-> "ok", docs |-> TRUE, key |-> "OL1A", birth |-> "1900", death |-> None]

LookupResponses ==
    {[status |-> "error"], [status |-> "ok", docs |-> FALSE], LookupFound,
     [status |-> "ok", docs |-> TRUE, key |-> None, birth |-> None, death |-> "1950"]}

InitPipeline ==
    /\ InitObject
    /\ mode = "pipeline" /\ pc = "connect_db" /\ ran = {}
    /\ calls = CallPlan({}, 0)

\* the next statement of run_full_pipeline
PipelineSteps(quote_page, lookups, F) ==
    \/ \E ok \in BOOLEAN : connect_db(ok)
    \/ \E fault \in F : create_tables(fault)
    \/ \E resp \in SiteNav : extract_categories(resp)
    \/ extract_books_begin
    \/ \E resp \in ServeOnce(SiteBookPage, page) : extract_books_page(resp)
    \/ \E order \in Orders(Range(fictional_publishers)) : generate_publishers(order)
    \/ extract_authors_begin
    \/ \E resp \in ServeOnce(quote_page, page) : extract_authors_page(resp)
    \/ \E resps \in [DOMAIN authors -> lookups] : enrich_authors_with_openlibrary(resps)
    \/ InsertSteps(F)
    \/ \E fault \in F : display_summary(fault)
    \/ \E fault \in F, no_price \in BOOLEAN : verify_relations(no_price, fault)
    \/ \E fault \in F, results \in ExportResults(db) : export_to_csv_json(results, fault)
    \/ close_connection

Init == InitPipeline /\ faults = MaxFaults

Next == PipelineSteps(SiteQuotePage, {[status |-> "error"], LookupFound}, Faults)

Spec == Init /\ [][Next]_vars

InitLookups == InitPipeline /\ faults = 0

NextLookups == PipelineSteps(SiteQuotePageTwoAuthors, LookupResponses, {NoFault})

SpecLookups == InitLookups /\ [][NextLookups]_vars

\* C1: when a statement of an insert phase raises, none of the rows of that
\* phase are persisted, the rows committed by the earlier phases are kept
\* and run_full_pipeline goes on with the next phase
C1_FailedInsertPhaseLeavesNoRow ==
    [][(pc \in InsertPhases /\ last'.raised)
       => /\ db' = db
          /\ pc' = NextPhase(pc)
      ]_vars

\* C2: when run_full_pipeline returns, the database connection is not open
C2_ConnectionClosedAtReturn == pc = "done" => conn /= "open"

\* run_full_pipeline returned after an exception reached its handler, and the
\* connection that connect_db had opened is closed
C2_Witness ==
    /\ pc = "done"
    /\ "run_full_pipeline" \in errlog
    /\ conn = "closed"

\* a step of a method that leaves run_full_pipeline at its next statement
Continues == pc' \in {pc, NextPhase(pc)}

\* C3 as stated: only a failure of connect_db keeps the remaining phases
\* from running; after every other step the pipeline is at the same or at
\* the next phase
C3_OnlyConnectAborts ==
    [][pc \notin {"connect_db", "close_connection"} => Continues]_vars

\* C3 amended: a failure of connect_db or of create_tables aborts the
\* pipeline (the handler logs it and the connection is closed); a failure of
\* any later step is logged and the pipeline goes on with the next phase
C3_ConnectOrCreateTablesAborts ==
    [][/\ pc \in {"connect_db", "create_tables"}
          => IF last'.raised
             THEN /\ pc' = "close_connection"
                  /\ {pc, "run_full_pipeline"} \subseteq errlog'
                  /\ db' = db
             ELSE pc' = NextPhase(pc)
       /\ pc \notin {"connect_db", "create_tables", "close_connection"}
          => /\ Continues
             /\ "run_full_pipeline" \notin errlog'
             /\ ("raised" \in DOMAIN last' /\ last'.raised) => pc \in errlog'
             /\ ("status" \in DOMAIN last' /\ last'.status = "error") => pc \in errlog'
      ]_vars

\* the pipeline ran to its end although an extraction, an insert phase and
\* the verification had failed
C3_Witness ==
    /\ pc = "done"
    /\ "run_full_pipeline" \notin errlog
    /\ \E p \in InsertPhases : p \in errlog
    /\ {"extract_categories", "verify_relations"} \subseteq errlog
    /\ files[ExportFiles[3]].written

\* C4: a lookup that fails in enrich_authors_with_openlibrary leaves its
\* author as it was and does not end the phase: every other author is still
\* looked up and takes what its answer holds, and the pipeline goes on with
\* the first insert phase
C4_LookupFailureSkipsOneAuthor ==
    [][pc = "enrich_authors_with_openlibrary"
       => /\ pc' = "insert_categories"
          /\ Len(authors') = Len(authors)
          /\ \A i \in DOMAIN authors :
                LET resp == last'.resps[i]
                IN  /\ resp.status = "error" => authors'[i] = authors[i]
                    /\ (resp.status = "ok" /\ resp.docs /\ resp.key /= None)
                       => authors'[i].openlibrary_key = resp.key
                    /\ (resp.status = "ok" /\ resp.docs /\ resp.birth /= None)
                       => authors'[i].birth_date = Jan1(resp.birth)
                    /\ (resp.status = "ok" /\ resp.docs /\ resp.death /= None)
                       => authors'[i].death_date = Jan1(resp.death)
      ]_vars

\* the lookup of the first author failed, the second author was enriched,
\* and both are rows of the authors table
C4_Witness ==
    /\ pc = "done"
    /\ "enrich_authors_with_openlibrary" \in errlog
    /\ Len(authors) = 2
    /\ authors[1].openlibrary_key = None /\ authors[2].openlibrary_key = "OL1A"
    /\ \E r \in db.authors : r.name = authors[1].name /\ r.openlibrary_key = None
    /\ \E r \in db.authors : r.name = authors[2].name /\ r.openlibrary_key = "OL1A"
(***************************************************************************)
(* SpecExport: export_to_csv_json called repeatedly on an object whose     *)
(* insert phases have filled the tables; the tables do not change          *)
(***************************************************************************)
MaxExportCalls == 2

ExportTitles == {<<>>, <<"t1">>, <<"t1", "t1">>, <<"t1", "t2">>, <<"t2", "t1">>}

ExportQuoteAuthors ==
    {<<>>, <<"Jane Doe">>, <<"Jane Doe", "Jane Doe">>, <<"Jane Doe", "John Roe">>,
     <<"John Roe", "Jane Doe">>}

ExportTexts == <<"q1", "q2">>

\* the scraped quotes of the given authors; the first one has two tags
ExportQuotes(names) ==
    [i \in DOMAIN names |->
        [text |-> ExportTexts[i], author |-> names[i],
         tags |-> IF i = 1 THEN <<"life", "love">> ELSE <<>>, db_id |-> NoId]]

\* the tables after all eight insert methods ran once without error: book i
\* drew publisher i, every book with a db_id got the first author (none when
\* there is no author: the method then raises), every known tag is linked
AllInserted(cats, pubs, auths, tgs, bks, qts) ==
    LET d == ChildrenInserted(cats, pubs, auths, tgs, bks, qts)
        pairs == [i \in DOMAIN bks |-> [book_id |-> i, author_id |-> 1]]
        links == IF qts = <<>> THEN <<>>
                 ELSE [k \in DOMAIN qts[1].tags |-> [quote_id |-> 1, tag_id |-> k]]
    IN  [d EXCEPT
            !.books = {[b EXCEPT !.publisher_id = b.id] : b \in @},
            !.book_authors = IF auths = <<>> THEN {} ELSE RowsOf(pairs),
            !.quote_tags = RowsOf(links)]

InitExport ==
    /\ mode = "direct" /\ pc = "idle" /\ ran = {}
    /\ calls = CallPlan({"export_to_csv_json"}, MaxExportCalls)
    /\ conn = "open"
    /\ publishers = fictional_publishers
    /\ page = 0 /\ authors_dict = <<>> /\ author_name = Unbound
    /\ last = NoLast /\ errlog = {}
    /\ tx_failed = FALSE
    /\ faults = MaxFaults
    /\ files = NoFiles
    /\ \E titles \in ExportTitles, names \in ExportQuoteAuthors,
          with_categories \in BOOLEAN, with_authors \in BOOLEAN :
           LET cats == IF with_categories THEN <<<<"Travel">>>> ELSE <<>>
               auths == IF with_authors THEN ScrapedAuthors ELSE <<>>
               bks == [i \in DOMAIN titles |->
                          [title |-> titles[i], rating |-> 3, category |-> <<"Travel">>,
                           publication_year |-> NoInt, db_id |-> NoId]]
               qts == ExportQuotes(names)
               tgs == IF qts = <<>> THEN <<>> ELSE <<"life", "love">>
           IN  /\ categories = cats
               /\ authors = auths
               /\ tags = Range(tgs)
               /\ books = WithIds(bks)
               /\ quotes = WithIds(qts)
               /\ db = AllInserted(cats, fictional_publishers, auths, tgs, bks, qts)
               /\ seqs = [t \in TableNames |-> Cardinality(db[t])]

NextExport ==
    \E fault \in Faults, results \in ExportResults(db) : export_to_csv_json(results, fault)

SpecExport == InitExport /\ [][NextExport]_vars

\* C11: a run of export_to_csv_json against the database content of an
\* earlier run writes the rows of the three files in the same order
C11_ExportDeterministic ==
    [][(/\ last'.op = "export_to_csv_json" /\ ~last'.raised
        /\ \A f \in DOMAIN files : files[f].written)
       => files' = files
      ]_vars
\* C19: after export_to_csv_json succeeds, every row of the books table is a
\* row of books_export.csv and every row of the quotes table is an object of
\* quotes_export.json, exactly once
C19_ExportLosesNoRow ==
    (last.op = "export_to_csv_json" /\ ~last.raised)
    => /\ Len(files[ExportFiles[1]].rows) = Cardinality(db.books)
       /\ Len(files[ExportFiles[2]].rows) = Cardinality(db.quotes)
\* C12: every book row that insert_books inserted references an existing
\* category row, and the lack of a matching category does not fail the phase
C12_BooksHaveCategory ==
    /\ \A b \in db.books : \E c \in db.categories : c.id = b.category_id
    /\ (last.op = "insert_books" /\ last.raised) => (last.injected \/ db.publishers = {})
\* the number of book_authors rows of book row b
links_of(b) == Cardinality({ba \in db.book_authors : ba.book_id = b.id})

\* C13: after insert_book_authors_relations every book row is linked to at
\* least 1 and at most min(3, number of author rows) authors, whatever the
\* number of author rows
C13_EveryBookHasAuthors ==
    (last.op = "insert_book_authors_relations" /\ ~last.injected)
    => /\ ~last.raised
       /\ \A b \in db.books :
              links_of(b) >= 1 /\ links_of(b) <= Min(3, Cardinality(db.authors))
(***************************************************************************)
(* SpecDetails: a caller that calls extract_books once on a site of one    *)
(* page with one book, whose container and detail page are chosen when     *)
(* they are fetched, and that calls insert_books and                       *)
(* extract_rating_from_class                                               *)
(***************************************************************************)
MaxClasses == 2

MaxRows == 2

MaxDetailCalls == 3

\* classes: "star-rating", "Two", "Five", "Twox", "FiveTwo"
DetailTokens == {<<"star-rating">>, <<"Two">>, <<"Five">>, <<"Two", "x">>, <<"Five", "Two">>}

\* the year that 20\d{2} finds in a cell
ParsedYears == {2050}

\* rows of the product table: the headers "UPC", "Availability" and "Number
\* available", the cell holding a year or not
DetailRows ==
    {[key |-> "upc", year |-> NoInt]}
    \cup {[key |-> "availability", year |-> y] : y \in ParsedYears}
    \cup {[key |-> "number available", year |-> y] : y \in ParsedYears \cup {NoInt}}

\* random.randint(2000, 2023)
YearDraws == 2000..2023

DetailItems ==
    {[kind |-> "detail_error", title |-> "t1", classes |-> cl, draw |-> dr] :
        cl \in SeqsUpTo(DetailTokens, MaxClasses), dr \in YearDraws}
    \cup {[kind |-> "ok", title |-> "t1", category |-> <<"Travel">>, classes |-> cl,
           rows |-> rw, draw |-> dr] :
             cl \in SeqsUpTo(DetailTokens, MaxClasses), rw \in SeqsUpTo(DetailRows, MaxRows),
             dr \in YearDraws}

\* the answers to the request of listing page p
DetailPages(p) ==
    IF p = 1 THEN {[status |-> "ok", items |-> <<it>>] : it \in DetailItems}
    ELSE {[status |-> "404"]}

\* a call of extract_rating_from_class
rating_call(rating_class) ==
    /\ Enter("extract_rating_from_class")
    /\ Return("extract_rating_from_class")
    /\ last' = [op |-> "extract_rating_from_class", rating_class |-> rating_class,
                result |-> extract_rating_from_class(rating_class)]
    /\ UNCHANGED <<conn, categories, books, publishers, authors, quotes, tags, page,
                   authors_dict, author_name, errlog, db, seqs, tx_failed, faults, files>>

InitDetails ==
    /\ mode = "direct" /\ pc = "idle" /\ ran = {}
    /\ calls = CallPlan({"extract_books", "insert_books", "extract_rating_from_class"},
                        MaxDetailCalls)
    /\ conn = "open"
    /\ categories = <<<<"Travel">>>>
    /\ books = <<>>
    /\ publishers = fictional_publishers
    /\ authors = <<>> /\ quotes = <<>> /\ tags = {}
    /\ page = 0 /\ authors_dict = <<>> /\ author_name = Unbound
    /\ last = NoLast /\ errlog = {}
    /\ db = ParentsInserted(categories, fictional_publishers, <<>>, <<>>)
    /\ seqs = [t \in TableNames |-> Cardinality(db[t])]
    /\ tx_failed = FALSE
    /\ faults = 0
    /\ files = NoFiles

NextDetails ==
    \/ books = <<>> /\ extract_books_begin
    \/ \E resp \in DetailPages(page) : extract_books_page(resp)
    \/ \E pick_cat \in Picks(Len(books), {r.name : r \in db.categories}),
          pick_pub \in Picks(Len(books), {r.name : r \in db.publishers}) :
           insert_books(pick_cat, pick_pub, NoFault)
    \/ \E rating_class \in DetailTokens : rating_call(rating_class)

SpecDetails == InitDetails /\ [][NextDetails]_vars

\* C14: every book record of self.books has a publication year, the year
\* parsed from its detail page or an integer of 2000..2023, whatever the
\* detail page holds and also when its fetch fails
C14_YearNeverAbsent ==
    \A i \in DOMAIN books :
        /\ books[i].publication_year /= NoInt
        /\ books[i].publication_year \in ParsedYears \cup YearDraws

\* C15 as stated: extract_rating_from_class maps the five words to 1..5 and
\* every other class to an absent rating; the rating of every book record and
\* of every book row is absent or in 1..5
C15_OtherClassesAbsent ==
    /\ last.op = "extract_rating_from_class"
       => /\ \A k \in DOMAIN RatingWords :
                 last.rating_class = <<RatingWords[k]>> => last.result = k
          /\ (\A k \in DOMAIN RatingWords : last.rating_class /= <<RatingWords[k]>>)
             => last.result = NoInt
    /\ \A i \in DOMAIN books : books[i].rating \in {NoInt} \cup 1..5
    /\ \A b \in db.books : b.rating \in {NoInt} \cup 1..5

\* C15 amended: extract_rating_from_class returns the number of the first of
\* the words One..Five that the class contains, and an absent rating when it
\* contains none, so a class that is one of the words gives its number; the
\* rating of every book record and of every book row is absent or in 1..5
C15_RatingOfFirstWordContained ==
    /\ last.op = "extract_rating_from_class"
       => /\ \A k \in DOMAIN RatingWords :
                 last.rating_class = <<RatingWords[k]>> => last.result = k
          /\ last.result = NoInt
             <=> \A k \in DOMAIN RatingWords : ~word_in(RatingWords[k], last.rating_class)
          /\ last.result /= NoInt
             => /\ last.result \in DOMAIN RatingWords
                /\ word_in(RatingWords[last.result], last.rating_class)
                /\ \A j \in 1..(last.result - 1) : ~word_in(RatingWords[j], last.rating_class)
    /\ \A i \in DOMAIN books : books[i].rating \in {NoInt} \cup 1..5
    /\ \A b \in db.books : b.rating \in {NoInt} \cup 1..5

\* a class that holds two of the words was converted to the number of the
\* first word of the map, after a book with a rating was scraped and inserted
C15_Witness ==
    /\ last.op = "extract_rating_from_class"
    /\ last.rating_class = <<"Five", "Two">> /\ last.result = 2
    /\ \E i \in DOMAIN books : books[i].rating = 5 /\ books[i].db_id /= NoId
    /\ \E b \in db.books : b.rating = 5
ExtractionPhases ==
    {"extract_categories", "extract_books", "generate_publishers",
     "extract_authors_from_quotes", "enrich_authors_with_openlibrary"}

ReportPhases == {"display_summary", "verify_relations", "export_to_csv_json"}

\* the phases that have to be over when phase p starts
RunsAfter(p) ==
    (IF p \in ExtractionPhases \cup InsertPhases THEN {"create_tables"} ELSE {})
    \cup (IF p \in InsertPhases THEN ExtractionPhases ELSE {})
    \cup (IF p = "insert_book_authors_relations" THEN {"insert_books", "insert_authors"} ELSE {})
    \cup (IF p = "insert_quote_tags_relations" THEN {"insert_quotes", "insert_tags"} ELSE {})
    \cup (IF p \in ReportPhases THEN InsertPhases ELSE {})

\* C16: in run_full_pipeline the schema is recreated before any extraction
\* or insert phase, every extraction and enrichment phase is over before the
\* first insert phase starts, a relation insert starts after the inserts of
\* both its parent tables have run, and verification and export start after
\* the last insert phase
C16_DependencyOrder ==
    /\ pc \in Methods => RunsAfter(pc) \subseteq ran
    /\ \A p \in ran : RunsAfter(p) \subseteq ran
    /\ (pc \in ExtractionPhases \cup InsertPhases
        \/ ran \cap (ExtractionPhases \cup InsertPhases) /= {})
       => "create_tables" \notin errlog
    /\ pc \in ExtractionPhases \cup InsertPhases \cup ReportPhases => pc \notin ran

\* run_full_pipeline has run every phase
C16_Witness ==
    /\ pc = "done"
    /\ ran = Methods
\* C17: a book record of self.books carries a db_id only if the books table
\* has a row with that id, and a quote record only if the quotes table has
\* one, also after the insert phase that set the ids was rolled back
C17_DbIdHasRow ==
    /\ \A i \in DOMAIN books :
           books[i].db_id /= NoId => \E b \in db.books : b.id = books[i].db_id
    /\ \A i \in DOMAIN quotes :
           quotes[i].db_id /= NoId => \E q \in db.quotes : q.id = quotes[i].db_id
\* C18: when the books table is empty, insert_quotes does not fail and
\* inserts every quote of self.quotes with an absent book_source
C18_QuotesInsertedWithoutBooks ==
    (last.op = "insert_quotes" /\ ~last.injected /\ db.books = {})
    => /\ ~last.raised
       /\ \A i \in DOMAIN quotes :
              \E q \in db.quotes : /\ q.id = quotes[i].db_id
                                   /\ q.text = quotes[i].text
                                   /\ q.book_source = None
(***************************************************************************)
(* SpecRuns: a caller that calls run_full_pipeline several times on one    *)
(* object, against the same sites and a database that raises no error, and *)
(* that counts the rows of the tables before each call                     *)
(***************************************************************************)
MaxRuns == 2

\* SELECT COUNT(*) of every table
TableCounts(d) == [t \in TableNames |-> Cardinality(d[t])]

\* the caller calls run_full_pipeline: lines 935-940
run_full_pipeline_begin ==
    /\ mode = "pipeline" /\ pc = "done"
    /\ calls.total > 0
    /\ pc' = "connect_db"
    /\ calls' = [calls EXCEPT !.total = @ - 1, !.rows = TableCounts(db)]
    /\ ran' = {}
    /\ last' = [op |-> "run_full_pipeline"]
    /\ UNCHANGED <<mode, conn, categories, books, publishers, authors, quotes, tags, page,
                   authors_dict, author_name, errlog, db, seqs, tx_failed, faults, files>>

InitRuns ==
    /\ InitObject
    /\ mode = "pipeline" /\ pc = "done" /\ ran = {}
    /\ calls = [methods |-> {"run_full_pipeline"}, total |-> MaxRuns,
                rows |-> TableCounts(EmptyDb)]
    /\ faults = 0

NextRuns ==
    \/ run_full_pipeline_begin
    \/ PipelineSteps(SiteQuotePage, {LookupFound}, {NoFault})

SpecRuns == InitRuns /\ [][NextRuns]_vars

\* C20: when run_full_pipeline has run again on the same object against the
\* same sites, every table holds as many rows as after the run before
C20_SecondRunSameCounts ==
    (pc = "done" /\ calls.total <= MaxRuns - 2 /\ errlog = {})
    => TableCounts(db) = calls.rows
(***************************************************************************)
(* SpecQuoteBlocks: extract_authors_from_quotes called once on a new       *)
(* object, against a site whose quote texts tell the small.author element  *)
(* of their block                                                          *)
(***************************************************************************)
BlockTexts == {"q of Jane Doe", "q of John Roe", "q unsigned"}

\* the small.author element of the block that holds the text: a name, or
\* None for the text of a block without that element
SignedBy(text) ==
    CASE text = "q of Jane Doe" -> "Jane Doe"
      [] text = "q of John Roe" -> "John Roe"
      [] OTHER -> None

\* the quote blocks of the site: with a span.text, or with a small.author
\* at most
SignedBlocks ==
    {[author |-> SignedBy(t), text |-> t, tags |-> tg] : t \in BlockTexts, tg \in ExtractTagLists}
    \cup {[author |-> a, text |-> None, tags |-> <<>>] : a \in ExtractNames \cup {None}}

SignedResponses ==
    {[status |-> "404"], [status |-> "error"]}
    \cup {[status |-> "ok", blocks |-> l] : l \in SeqsUpTo(SignedBlocks, MaxBlocks)}

InitQuoteBlocks ==
    /\ InitObject
    /\ mode = "direct" /\ pc = "idle" /\ ran = {}
    /\ calls = CallPlan({"extract_authors_from_quotes"}, 1)
    /\ faults = 0

NextQuoteBlocks ==
    \/ extract_authors_begin
    \/ StepAuthorsPage(SignedResponses)

SpecQuoteBlocks == InitQuoteBlocks /\ [][NextQuoteBlocks]_vars

\* C21: every quote record that extract_authors_from_quotes appends carries
\* the author name found in its own quote block, a block with a text and
\* without author element is not recorded with the author of an earlier
\* block, and when the method has returned the author of every quote is the
\* name of a record of self.authors
C21_QuoteHasAuthorOfItsBlock ==
    /\ \A i \in DOMAIN quotes : quotes[i].author = SignedBy(quotes[i].text)
    /\ (pc = "idle" /\ last.op = "extract_authors_page")
       => \A i \in DOMAIN quotes :
              \E k \in DOMAIN authors : authors[k].name = quotes[i].author
====
